---------------------------- MODULE Spec2Model ----------------------------
(***************************************************************************)
(* A model of slips_to_excel.py: the SalarySlipExtractor (field locators,  *)
(* record extraction, batch processing), add_totals_to_dataframe and main. *)
(*                                                                         *)
(* A Python str is a sequence of one-character strings.  A Python value    *)
(* that may be a str, None or a number is a tagged record (Str, None,      *)
(* Num), so that "absent", "empty string" and "zero" stay distinct.        *)
(* Amounts are kept exact, in hundredths (1234.56 is 123456).              *)
(***************************************************************************)
EXTENDS Integers, Sequences, FiniteSets, TLC

VARIABLES
    pc,             \* position of main: see the actions
    pdf_files,      \* process_all_pdfs: the filtered listing
    idx,            \* process_all_pdfs: index of the next file (1-based)
    outcomes,       \* history: what to_markdown did for each file so far
    data_rows,      \* SalarySlipExtractor.data_rows
    df,             \* main: the DataFrame built by get_dataframe (rows)
    df_with_totals, \* main: the result of add_totals_to_dataframe
    sink_table,     \* what save_to_pretty_excel wrote
    raised,         \* the exception main ended with ("none" if none)
    calls,          \* history: how often the aggregator and the sink ran
    markdown_text,  \* locator harness: the text under search
    located         \* locator harness: results of the two locators

vars == <<pc, pdf_files, idx, outcomes, data_rows, df, df_with_totals,
          sink_table, raised, calls, markdown_text, located>>

-----------------------------------------------------------------------------
(* Python values *)

None == [kind |-> "none"]
Str(s) == [kind |-> "str", s |-> s]
Num(n) == [kind |-> "num", n |-> n]

\* bool(v) for an Optional[str]: None and "" are falsy
Truthy(v) == v.kind = "str" /\ v.s # <<>>

-----------------------------------------------------------------------------
(* Characters and the regular-expression classes the patterns use *)

UpperCase == <<"A", "B", "C", "D", "E", "F", "G", "H", "I", "J", "K", "L", "M",
               "N", "O", "P", "Q", "R", "S", "T", "U", "V", "W", "X", "Y", "Z">>
LowerCase == <<"a", "b", "c", "d", "e", "f", "g", "h", "i", "j", "k", "l", "m",
               "n", "o", "p", "q", "r", "s", "t", "u", "v", "w", "x", "y", "z">>

\* str.lower() on one character; also the folding of re.IGNORECASE
LowerOf == [c \in {UpperCase[i] : i \in 1..Len(UpperCase)} |->
               LowerCase[CHOOSE i \in 1..Len(UpperCase) : UpperCase[i] = c]]
Lower(c) == IF c \in DOMAIN LowerOf THEN LowerOf[c] ELSE c

SpaceChars == {" ", "\t", "\n", "\r"}                 \* \s
DigitChars == {"0", "1", "2", "3", "4", "5", "6", "7", "8", "9"}   \* \d
DigitComma == DigitChars \cup {","}                   \* [\d,]
StarSpace == {"*"} \cup SpaceChars                    \* [*\s]

\* the first position q >= p whose character is not in S (Len+1 if none):
\* where a greedy S* started at p stops
SkipSet(text, p, S) ==
    CHOOSE q \in p..(Len(text) + 1) :
        /\ (q = Len(text) + 1 \/ text[q] \notin S)
        /\ \A r \in p..(q - 1) : text[r] \in S

\* the first position q >= p whose character is in S (Len+1 if none):
\* where a greedy [^S]* started at p stops
SkipUntil(text, p, S) ==
    CHOOSE q \in p..(Len(text) + 1) :
        /\ (q = Len(text) + 1 \/ text[q] \in S)
        /\ \A r \in p..(q - 1) : text[r] \notin S

\* the literal lit stands at position p, letters compared case-insensitively
\* (re.escape(field_name) under re.IGNORECASE)
LiteralAt(text, p, lit) ==
    /\ p >= 1
    /\ p + Len(lit) - 1 <= Len(text)
    /\ \A i \in 1..Len(lit) : Lower(text[p + i - 1]) = Lower(lit[i])

\* the literal lit stands at position p, compared exactly
ExactAt(text, p, lit) ==
    /\ p >= 1
    /\ p + Len(lit) - 1 <= Len(text)
    /\ \A i \in 1..Len(lit) : text[p + i - 1] = lit[i]

(* Sets of positions the matcher can be at: P after one more pattern item. *)
\* X* for a character class X
AfterStar(text, P, S) == UNION {p..SkipSet(text, p, S) : p \in P}
\* c{0,2} for a character c
AfterUpTo2(text, P, c) ==
    UNION {{q \in p..(p + 2) : \A r \in p..(q - 1) : r <= Len(text) /\ text[r] = c} : p \in P}
\* c? for a character c
AfterOpt(text, P, c) == P \cup {p + 1 : p \in {x \in P : x <= Len(text) /\ text[x] = c}}
\* a literal, case-insensitively
AfterLit(text, P, lit) == {p + Len(lit) : p \in {x \in P : LiteralAt(text, x, lit)}}

Min(S) == CHOOSE x \in S : \A y \in S : x <= y
Max(S) == CHOOSE x \in S : \A y \in S : x >= y

-----------------------------------------------------------------------------
(* clean_value *)

NotPipe(c) == c # "|"

\* the position just past a match of <br\s*/?> that starts at p; 0 if none
BrEnd(v, p) ==
    LET P0 == IF ExactAt(v, p, <<"<", "b", "r">>) THEN {p + 3} ELSE {}
        P1 == AfterOpt(v, AfterStar(v, P0, SpaceChars), "/")
        E == {q + 1 : q \in {x \in P1 : x <= Len(v) /\ v[x] = ">"}}
    IN IF E = {} THEN 0 ELSE Max(E)

\* re.sub(r"<br\s*/?>", " ", v)
RECURSIVE SubBr(_)
SubBr(v) ==
    IF v = <<>> THEN <<>>
    ELSE IF BrEnd(v, 1) > 0
         THEN <<" ">> \o SubBr(SubSeq(v, BrEnd(v, 1), Len(v)))
         ELSE <<Head(v)>> \o SubBr(Tail(v))

\* str.strip()
Strip(v) ==
    LET lo == SkipSet(v, 1, SpaceChars)
    IN IF lo > Len(v) THEN <<>>
       ELSE SubSeq(v, lo, Max({i \in 1..Len(v) : v[i] \notin SpaceChars}))

\* re.sub(r"\s+", " ", v)
RECURSIVE CollapseSpace(_)
CollapseSpace(v) ==
    IF v = <<>> THEN <<>>
    ELSE IF Head(v) \in SpaceChars
         THEN <<" ">> \o CollapseSpace(SubSeq(v, SkipSet(v, 1, SpaceChars), Len(v)))
         ELSE <<Head(v)>> \o CollapseSpace(Tail(v))

clean_value(value) ==
    IF ~Truthy(value) THEN None
    ELSE LET cleaned == CollapseSpace(Strip(SelectSeq(SubBr(value.s), NotPipe)))
         IN IF cleaned # <<>> /\ cleaned # <<"-">> THEN Str(cleaned) ELSE None

-----------------------------------------------------------------------------
(* extract_from_table_row:  \|[*\s]*LABEL[*\s]*\|([^|]+)\|                 *)

\* where group 1 can start when the match starts at s.  At most one position:
\* no label begins or ends with a character of [*\s], and "|" is not in [*\s].
RowGroupStarts(text, field_name, s) ==
    LET P0 == IF text[s] = "|" THEN {s + 1} ELSE {}
        P1 == AfterLit(text, AfterStar(text, P0, StarSpace), field_name)
        P2 == AfterLit(text, AfterStar(text, P1, StarSpace), <<"|">>)
    IN {g \in P2 : /\ SkipUntil(text, g, {"|"}) > g
                   /\ SkipUntil(text, g, {"|"}) <= Len(text)}

\* the pattern matches with its first character at s
RowMatchAt(text, field_name, s) == RowGroupStarts(text, field_name, s) # {}

\* match.group(1) of the match that starts at s: [^|]+ is greedy and the
\* closing "|" must follow it
RowGroup(text, field_name, s) ==
    LET g == Max(RowGroupStarts(text, field_name, s))
    IN SubSeq(text, g, SkipUntil(text, g, {"|"}) - 1)

\* re.search: the start of the leftmost match; 0 if there is none
RowSearch(text, field_name) ==
    LET M == {s \in 1..Len(text) : RowMatchAt(text, field_name, s)}
    IN IF M = {} THEN 0 ELSE Min(M)

extract_from_table_row(text, field_name) ==
    LET s == RowSearch(text, field_name)
    IN IF s # 0 THEN clean_value(Str(RowGroup(text, field_name, s))) ELSE None

-----------------------------------------------------------------------------
(* extract_numeric_value *)

\* NumericToken with the fraction read as \.\d+ : every digit after the point
NumericToken_AnyFraction(text, t) ==
    LET e == SkipSet(text, t, DigitComma)
    IN IF e + 1 <= Len(text) /\ text[e] = "." /\ text[e + 1] \in DigitChars
       THEN SubSeq(text, t, SkipSet(text, e + 1, DigitChars) - 1)
       ELSE SubSeq(text, t, e - 1)

\* ([\d,]+(?:\.\d{2})?) matched from t on: the greedy run of [\d,], then the
\* two-digit fraction if it is there
NumericToken(text, t) ==
    LET e == SkipSet(text, t, DigitComma)
    IN IF /\ e + 2 <= Len(text)
          /\ text[e] = "."
          /\ text[e + 1] \in DigitChars
          /\ text[e + 2] \in DigitChars
       THEN SubSeq(text, t, e + 2)
       ELSE SubSeq(text, t, e - 1)

\* the positions that begin [\d,]+
TokenStarts(text, P) == {t \in P : t <= Len(text) /\ text[t] \in DigitComma}

\* InlineGroupStarts without the optional cell border \|? after the label
InlineGroupStarts_NoBorder(text, field_name, s) ==
    LET P1 == AfterLit(text, AfterUpTo2(text, {s}, "*"), field_name)
        P2 == AfterStar(text, AfterUpTo2(text, P1, "*"), SpaceChars)
    IN {t \in P2 : t <= Len(text) /\ text[t] \in DigitComma}

\* \*{0,2}LABEL\*{0,2}\s*\|?\s*([\d,]+(?:\.\d{2})?) : where group 1 can start
\* when the match starts at s (at most one position: everything between the
\* label and the token is "*", whitespace or "|")
InlineGroupStarts(text, field_name, s) ==
    LET P1 == AfterLit(text, AfterUpTo2(text, {s}, "*"), field_name)
        P2 == AfterStar(text, AfterUpTo2(text, P1, "*"), SpaceChars)
        P3 == AfterStar(text, AfterOpt(text, P2, "|"), SpaceChars)
    IN TokenStarts(text, P3)

\* \|\s*\*{0,2}LABEL\*{0,2}\s*\|\s*([\d,]+(?:\.\d{2})?) : the same
TableGroupStarts(text, field_name, s) ==
    LET P0 == IF text[s] = "|" THEN {s + 1} ELSE {}
        P1 == AfterUpTo2(text, AfterStar(text, P0, SpaceChars), "*")
        P2 == AfterUpTo2(text, AfterLit(text, P1, field_name), "*")
        P3 == AfterLit(text, AfterStar(text, P2, SpaceChars), <<"|">>)
    IN TokenStarts(text, AfterStar(text, P3, SpaceChars))

\* InlineSearch taking the rightmost match instead of the leftmost
InlineSearch_Rightmost(text, field_name) ==
    LET M == {s \in 1..Len(text) : InlineGroupStarts(text, field_name, s) # {}}
    IN IF M = {} THEN None
       ELSE Str(NumericToken(text, Max(InlineGroupStarts(text, field_name, Max(M)))))

\* re.search(pattern, ...): group 1 of the leftmost match, None if no match
InlineSearch(text, field_name) ==
    LET M == {s \in 1..Len(text) : InlineGroupStarts(text, field_name, s) # {}}
    IN IF M = {} THEN None
       ELSE Str(NumericToken(text, Max(InlineGroupStarts(text, field_name, Min(M)))))

\* re.search(table_pattern, ...)
TableSearch(text, field_name) ==
    LET M == {s \in 1..Len(text) : TableGroupStarts(text, field_name, s) # {}}
    IN IF M = {} THEN None
       ELSE Str(NumericToken(text, Max(TableGroupStarts(text, field_name, Min(M)))))

\* "m.group(1).strip() if m and m.group(1).strip() else <otherwise>"
StrippedOr(m, otherwise) ==
    IF m # None /\ Strip(m.s) # <<>> THEN Str(Strip(m.s)) ELSE otherwise

extract_numeric_value(text, field_name) ==
    StrippedOr(InlineSearch(text, field_name),
               StrippedOr(TableSearch(text, field_name), None))

-----------------------------------------------------------------------------
(* The field schema of extract_data_from_pdf and add_totals_to_dataframe *)

\* the keys of basic_fields, in order
basic_keys == <<"Month", "Employee Name", "CNIC", "Designation", "Employment Basis">>
\* the keys of numeric_fields (and numeric_cols), in order
numeric_cols == <<"Basic Salary",
                  "House Rent Allowance",
                  "Medical Allowance",
                  "Utilities Allowance",
                  "Bonus",
                  "Fuel Reimbursements",
                  "Gross Pay",
                  "Income Tax",
                  "Total Deduction",
                  "Net Salary">>

Range(q) == {q[i] : i \in 1..Len(q)}
BasicKeys == Range(basic_keys)
NumericKeys == Range(numeric_cols)
Columns == {"File"} \cup BasicKeys \cup NumericKeys

\* basic_fields: key -> the label searched for
basic_fields ==
    [k \in BasicKeys |->
        CASE k = "Month" -> <<"M", "o", "n", "t", "h", " ", "o", "f", " ", "S", "a", "l", "a", "r", "y">>
          [] k = "Employee Name" -> <<"E", "m", "p", "l", "o", "y", "e", "e", " ", "N", "a", "m", "e">>
          [] k = "CNIC" -> <<"C", "N", "I", "C", " ", "N", "o", ".">>
          [] k = "Designation" -> <<"D", "e", "s", "i", "g", "n", "a", "t", "i", "o", "n">>
          [] k = "Employment Basis" -> <<"E", "m", "p", "l", "o", "y", "m", "e", "n", "t", " ", "B", "a", "s", "i", "s">>]

\* numeric_fields: key -> the label searched for
numeric_fields ==
    [k \in NumericKeys |->
        CASE k = "Basic Salary" -> <<"B", "a", "s", "i", "c", " ", "S", "a", "l", "a", "r", "y">>
          [] k = "House Rent Allowance" -> <<"H", "o", "u", "s", "e", " ", "R", "e", "n", "t", " ", "A", "l", "l", "o", "w", "a", "n", "c", "e">>
          [] k = "Medical Allowance" -> <<"M", "e", "d", "i", "c", "a", "l", " ", "A", "l", "l", "o", "w", "a", "n", "c", "e">>
          [] k = "Utilities Allowance" -> <<"U", "t", "i", "l", "i", "t", "i", "e", "s", " ", "A", "l", "l", "o", "w", "a", "n", "c", "e">>
          [] k = "Bonus" -> <<"B", "o", "n", "u", "s">>
          [] k = "Fuel Reimbursements" -> <<"F", "u", "e", "l", " ", "R", "e", "i", "m", "b", "u", "r", "s", "e", "m", "e", "n", "t", "s">>
          [] k = "Gross Pay" -> <<"G", "r", "o", "s", "s", " ", "P", "a", "y">>
          [] k = "Income Tax" -> <<"I", "n", "c", "o", "m", "e", " ", "T", "a", "x">>
          [] k = "Total Deduction" -> <<"T", "o", "t", "a", "l", " ", "D", "e", "d", "u", "c", "t", "i", "o", "n">>
          [] k = "Net Salary" -> <<"N", "e", "t", " ", "S", "a", "l", "a", "r", "y">>]

\* the locator extract_data_from_pdf applies to the field k
Locate(text, k) ==
    IF k \in BasicKeys
    THEN extract_from_table_row(text, basic_fields[k])
    ELSE extract_numeric_value(text, numeric_fields[k])

-----------------------------------------------------------------------------
(* Exceptions.  A handler catches an exception of a listed class or of a   *)
(* subclass of one.                                                        *)

Bases(exc) ==
    CASE exc \in {"FileNotFoundError", "PermissionError", "NotADirectoryError"} -> {"OSError"}
      [] OTHER -> {}

Catches(handlers, exc) == (handlers \cap ({exc} \cup Bases(exc))) # {}

\* what to_markdown (the text source) can do for one file: return a str,
\* return nothing, or raise.  It opens and reads a file, so besides a
\* missing or unreadable file it can fail with any other I/O error (OSError).
ToMarkdownErrors == {"FileNotFoundError", "PermissionError", "ValueError", "OSError"}

Returned(v) == [kind |-> "return", value |-> v]
Raised(exc) == [kind |-> "raise", exc |-> exc]

-----------------------------------------------------------------------------
(* extract_data_from_pdf *)

\* lines 102-119: File is the base name, the fifteen fields are None
InitialData(file) == [c \in Columns |-> IF c = "File" THEN Str(file) ELSE None]

\* lines 137-164: the two loops over basic_fields and numeric_fields; a field
\* is stored only "if value"
FieldPass(text, data) ==
    [c \in Columns |->
        IF c # "File" /\ Truthy(Locate(text, c)) THEN Locate(text, c) ELSE data[c]]

\* lines 166-168
DefaultZero(data) ==
    [c \in Columns |->
        IF /\ c \in {"Bonus", "Fuel Reimbursements"}
           /\ (data[c] = Str(<<"-">>) \/ data[c] = Str(<<>>))
        THEN Str(<<"0">>)
        ELSE data[c]]

\* extract_data_from_pdf raising a ValueError of its own when there is no text
extract_data_from_pdf_RaisesOnNoText(file, outcome) ==
    IF outcome.kind = "raise"
    THEN IF Catches({"FileNotFoundError", "PermissionError", "ValueError"}, outcome.exc)
         THEN [raised |-> "none", data |-> InitialData(file)]
         ELSE [raised |-> outcome.exc, data |-> None]
    ELSE IF ~Truthy(outcome.value)
         THEN [raised |-> "ValueError", data |-> None]
         ELSE [raised |-> "none",
               data |-> DefaultZero(FieldPass(outcome.value.s, InitialData(file)))]

\* the whole method, given what to_markdown does: the exception that leaves
\* the method ("none" if it returns) and the dict it returns
extract_data_from_pdf(file, outcome) ==
    IF outcome.kind = "raise"
    THEN IF Catches({"FileNotFoundError", "PermissionError", "ValueError"}, outcome.exc)
         THEN [raised |-> "none", data |-> InitialData(file)]
         ELSE [raised |-> outcome.exc, data |-> None]
    ELSE IF ~Truthy(outcome.value)
         THEN [raised |-> "none", data |-> InitialData(file)]
         ELSE [raised |-> "none",
               data |-> DefaultZero(FieldPass(outcome.value.s, InitialData(file)))]

-----------------------------------------------------------------------------
(* add_totals_to_dataframe *)

\* str.replace(old, new) for a one-character old
RECURSIVE Replace(_, _, _)
Replace(v, old, new) ==
    IF v = <<>> THEN <<>>
    ELSE (IF Head(v) = old THEN new ELSE <<Head(v)>>) \o Replace(Tail(v), old, new)

\* astype(str) on a cell of an object column
AsTypeStr(v) == IF v = None THEN <<"N", "o", "n", "e">> ELSE v.s

DigitValue(c) == CHOOSE d \in 0..9 : <<"0", "1", "2", "3", "4", "5", "6", "7", "8", "9">>[d + 1] = c

\* the value of a string of digits (0 for the empty string)
RECURSIVE DigitsValue(_)
DigitsValue(v) ==
    IF v = <<>> THEN 0
    ELSE 10 * DigitsValue(SubSeq(v, 1, Len(v) - 1)) + DigitValue(v[Len(v)])

NaN == -1

\* pd.to_numeric(..., errors="coerce") on one string, in hundredths; NaN when
\* the string is no number.  Defined for fractions of at most two digits,
\* which is all the token pattern ([\d,]+(?:\.\d{2})?) lets through.
to_numeric(v) ==
    LET dot == SkipUntil(v, 1, {"."})
        ip == SubSeq(v, 1, dot - 1)
        fp == SubSeq(v, dot + 1, Len(v))
        digits(x) == \A i \in 1..Len(x) : x[i] \in DigitChars
    IN CASE ~(digits(ip) /\ digits(fp)) -> NaN
         [] digits(ip) /\ digits(fp) /\ Len(ip) + Len(fp) = 0 -> NaN
         [] digits(ip) /\ digits(fp) /\ Len(ip) + Len(fp) > 0 /\ Len(fp) = 0 ->
                100 * DigitsValue(ip)
         [] digits(ip) /\ digits(fp) /\ Len(fp) = 1 ->
                100 * DigitsValue(ip) + 10 * DigitsValue(fp)
         [] digits(ip) /\ digits(fp) /\ Len(fp) = 2 ->
                100 * DigitsValue(ip) + DigitsValue(fp)

\* Coerce without the removal of the thousands separators
Coerce_KeepsCommas(v) ==
    LET n == to_numeric(Replace(AsTypeStr(v), "-", <<"0">>))
    IN Num(IF n = NaN THEN 0 ELSE n)

\* lines 246-247 on one cell
Coerce(v) ==
    LET cleaned == Replace(Replace(AsTypeStr(v), ",", <<>>), "-", <<"0">>)
        n == to_numeric(cleaned)
    IN Num(IF n = NaN THEN 0 ELSE n)

\* lines 244-248: the frame with its numeric columns rewritten
CoerceFrame(frame) ==
    [i \in 1..Len(frame) |->
        [c \in Columns |-> IF c \in NumericKeys THEN Coerce(frame[i][c]) ELSE frame[i][c]]]

\* df[col].sum() over a coerced frame
RECURSIVE ColumnSum(_, _)
ColumnSum(frame, c) ==
    IF frame = <<>> THEN 0 ELSE frame[1][c].n + ColumnSum(Tail(frame), c)

\* lines 250-256
TotalsRow(frame) ==
    [c \in Columns |->
        IF c = "File" THEN Str(<<"T", "O", "T", "A", "L">>)
        ELSE IF c \in NumericKeys THEN Num(ColumnSum(frame, c))
        ELSE Str(<<>>)]

\* add_totals_to_dataframe with the totals row put first
add_totals_to_dataframe_TotalsFirst(frame) ==
    <<TotalsRow(CoerceFrame(frame))>> \o CoerceFrame(frame)

\* the frame returned (lines 258-261), computed from the frame passed in
add_totals_to_dataframe(frame) ==
    Append(CoerceFrame(frame), TotalsRow(CoerceFrame(frame)))

-----------------------------------------------------------------------------
(* The environment of one run of main *)

MaxEntries == 2     \* directory entries os.listdir returns

\* names the folder may hold
FolderEntries ==
    { <<"T", "O", "T", "A", "L", ".", "p", "d", "f">>,
      <<"b", ".", "P", "D", "F">>,
      <<"c", ".", "p", "d", "f">>,
      <<"T", "O", "T", "A", "L">>,
      <<"m", ".", "t", "x", "t">> }

\* the orders os.listdir may return some of them in
Listings ==
    UNION {{l \in [1..n -> FolderEntries] : \A i, j \in 1..n : i # j => l[i] # l[j]} :
              n \in 0..MaxEntries}

\* IsPdf without the test of the suffix
IsPdf_AnyName(f) == TRUE

\* f.lower().endswith(".pdf")
IsPdf(f) ==
    /\ Len(f) >= 4
    /\ [i \in 1..4 |-> Lower(f[Len(f) - 4 + i])] = <<".", "p", "d", "f">>

ListdirErrors == {"FileNotFoundError", "PermissionError", "NotADirectoryError"}

\* texts to_markdown may return for a slip (\n is a line break):
\*   | **CNIC No.** | 42101-1 |\nBasic Salary 10,000\n| Bonus | - |
\*   | Designation | Engineer |\n| Gross Pay | 5,000.50 |
\*   Fuel Reimbursements 1,200.00\n| Income Tax | 1,234.56 |
\*   Salary slip
DocTexts ==
    { <<"|", " ", "*", "*", "C", "N", "I", "C", " ", "N", "o", ".", "*", "*", " ", "|", " ", "4", "2", "1", "0", "1", "-", "1", " ", "|", "\n", "B", "a", "s", "i", "c", " ", "S", "a", "l", "a", "r", "y", " ", "1", "0", ",", "0", "0", "0", "\n", "|", " ", "B", "o", "n", "u", "s", " ", "|", " ", "-", " ", "|">>,
      <<"|", " ", "D", "e", "s", "i", "g", "n", "a", "t", "i", "o", "n", " ", "|", " ", "E", "n", "g", "i", "n", "e", "e", "r", " ", "|", "\n", "|", " ", "G", "r", "o", "s", "s", " ", "P", "a", "y", " ", "|", " ", "5", ",", "0", "0", "0", ".", "5", "0", " ", "|">>,
      <<"F", "u", "e", "l", " ", "R", "e", "i", "m", "b", "u", "r", "s", "e", "m", "e", "n", "t", "s", " ", "1", ",", "2", "0", "0", ".", "0", "0", "\n", "|", " ", "I", "n", "c", "o", "m", "e", " ", "T", "a", "x", " ", "|", " ", "1", ",", "2", "3", "4", ".", "5", "6", " ", "|">>,
      <<"S", "a", "l", "a", "r", "y", " ", "s", "l", "i", "p">> }

ToMarkdownOutcomes ==
    {Returned(Str(d)) : d \in DocTexts}
        \cup {Returned(None), Returned(Str(<<>>))}
        \cup {Raised(e) : e \in ToMarkdownErrors}

\* what os.makedirs / the Excel writer can end with
MakedirsResults == {"ok", "FileNotFoundError", "PermissionError"}
SaveResults == {"ok", "FileNotFoundError", "PermissionError", "ValueError"}

-----------------------------------------------------------------------------
(* main, one action per step *)

Init ==
    /\ pc = "makedirs"
    /\ pdf_files = <<>>
    /\ idx = 0
    /\ outcomes = <<>>
    /\ data_rows = <<>>
    /\ df = <<>>
    /\ df_with_totals = <<>>
    /\ sink_table = <<>>
    /\ raised = "none"
    /\ calls = [aggregate |-> 0, sink |-> 0]
    /\ markdown_text = <<>>
    /\ located = None

\* lines 376-383: the output directory; a failure is logged and re-raised
MainMakeDirs ==
    /\ pc = "makedirs"
    /\ \E r \in MakedirsResults :
          IF r = "ok"
          THEN pc' = "listdir" /\ raised' = raised
          ELSE pc' = "failed" /\ raised' = r
    /\ UNCHANGED <<pdf_files, idx, outcomes, data_rows, df, df_with_totals,
                   sink_table, calls, markdown_text, located>>

\* process_all_pdfs, lines 182-196: list the folder, keep the .pdf names
ListFolder ==
    /\ pc = "listdir"
    /\ \E o \in {Raised(e) : e \in ListdirErrors} \cup {Returned(l) : l \in Listings} :
          IF o.kind = "raise"
          THEN IF Catches({"FileNotFoundError", "PermissionError"}, o.exc)
               THEN pc' = "get_dataframe" /\ raised' = raised
                    /\ UNCHANGED <<pdf_files, idx>>
               ELSE pc' = "failed" /\ raised' = o.exc
                    /\ UNCHANGED <<pdf_files, idx>>
          ELSE /\ pdf_files' = SelectSeq(o.value, IsPdf)
               /\ raised' = raised
               /\ IF Len(pdf_files') = 0
                  THEN pc' = "get_dataframe" /\ idx' = idx
                  ELSE pc' = "extract" /\ idx' = 1
    /\ UNCHANGED <<outcomes, data_rows, df, df_with_totals, sink_table, calls,
                   markdown_text, located>>

\* process_all_pdfs, lines 198-203: one turn of the loop
ProcessPdf ==
    /\ pc = "extract"
    /\ \E o \in ToMarkdownOutcomes :
          LET r == extract_data_from_pdf(pdf_files[idx], o)
          IN /\ outcomes' = Append(outcomes, o)
             /\ IF r.raised = "none"
                THEN /\ data_rows' = Append(data_rows, r.data)
                     /\ idx' = idx + 1
                     /\ pc' = IF idx = Len(pdf_files) THEN "get_dataframe" ELSE "extract"
                     /\ raised' = raised
                ELSE /\ pc' = "failed"
                     /\ raised' = r.raised
                     /\ UNCHANGED <<data_rows, idx>>
    /\ UNCHANGED <<pdf_files, df, df_with_totals, sink_table, calls,
                   markdown_text, located>>

\* GetDataframe without the check for an empty collection
GetDataframe_NoEmptyCheck ==
    /\ pc = "get_dataframe"
    /\ pc' = "add_totals"
    /\ df' = data_rows
    /\ UNCHANGED <<pdf_files, idx, outcomes, data_rows, df_with_totals,
                   sink_table, raised, calls, markdown_text, located>>

\* get_dataframe, lines 215-219; its ValueError is logged by main and re-raised
GetDataframe ==
    /\ pc = "get_dataframe"
    /\ IF data_rows = <<>>
       THEN pc' = "failed" /\ raised' = "ValueError" /\ df' = df
       ELSE pc' = "add_totals" /\ raised' = raised /\ df' = data_rows
    /\ UNCHANGED <<pdf_files, idx, outcomes, data_rows, df_with_totals,
                   sink_table, calls, markdown_text, located>>

\* main line 399: add_totals_to_dataframe(df); df itself is rewritten in place
AddTotals ==
    /\ pc = "add_totals"
    /\ df' = CoerceFrame(df)
    /\ df_with_totals' = add_totals_to_dataframe(df)
    /\ calls' = [calls EXCEPT !.aggregate = @ + 1]
    /\ pc' = "save"
    /\ UNCHANGED <<pdf_files, idx, outcomes, data_rows, sink_table, raised,
                   markdown_text, located>>

\* main line 400: save_to_pretty_excel; a failure is logged and re-raised
Save ==
    /\ pc = "save"
    /\ calls' = [calls EXCEPT !.sink = @ + 1]
    /\ \E r \in SaveResults :
          IF r = "ok"
          THEN pc' = "done" /\ sink_table' = df_with_totals /\ raised' = raised
          ELSE pc' = "failed" /\ sink_table' = sink_table /\ raised' = r
    /\ UNCHANGED <<pdf_files, idx, outcomes, data_rows, df, df_with_totals,
                   markdown_text, located>>

Next == MainMakeDirs \/ ListFolder \/ ProcessPdf \/ GetDataframe \/ AddTotals \/ Save

Spec == Init /\ [][Next]_vars

-----------------------------------------------------------------------------
(* The locators on their own: a text is put together piece by piece and    *)
(* the locator of one field is applied to it, as extract_data_from_pdf     *)
(* applies it to the text of a slip.                                       *)

MaxPieces == 6      \* pieces in a text

LocateKeys == {"CNIC", "Bonus"}

LabelOf(k) == IF k \in BasicKeys THEN basic_fields[k] ELSE numeric_fields[k]

\* what a text is made of: the field's label, a cell border, a blank, a
\* digit, and for a numeric field a decimal point
Pieces(k) ==
    {LabelOf(k), <<"|">>, <<" ">>, <<"1">>}
        \cup (IF k \in NumericKeys THEN {<<".">>} ELSE {})

InitLocate ==
    /\ pc = "locate"
    /\ markdown_text = <<>>
    /\ \E k \in LocateKeys : located = [key |-> k, pieces |-> 0, value |-> Locate(<<>>, k)]
    /\ pdf_files = <<>>
    /\ idx = 0
    /\ outcomes = <<>>
    /\ data_rows = <<>>
    /\ df = <<>>
    /\ df_with_totals = <<>>
    /\ sink_table = <<>>
    /\ raised = "none"
    /\ calls = [aggregate |-> 0, sink |-> 0]

\* the text grows by one piece and the field is located in it
EmitPiece ==
    /\ pc = "locate"
    /\ located.pieces < MaxPieces
    /\ \E p \in Pieces(located.key) :
          /\ markdown_text' = markdown_text \o p
          /\ located' = [key |-> located.key,
                         pieces |-> located.pieces + 1,
                         value |-> Locate(markdown_text', located.key)]
    /\ UNCHANGED <<pc, pdf_files, idx, outcomes, data_rows, df, df_with_totals,
                   sink_table, raised, calls>>

SpecLocate == InitLocate /\ [][EmitPiece]_vars

-----------------------------------------------------------------------------
(* The aggregator on its own: get_dataframe and add_totals_to_dataframe    *)
(* applied to a collection of records.                                     *)

MaxRows == 2        \* records in the collection

\* values of a numeric field: absent, the placeholder dash, tokens
AggTokens ==
    { None,
      Str(<<"-">>),
      Str(<<"1", ",", "2", "3", "4", ".", "5", "6">>),
      Str(<<"1", "0", ",", "0", "0", "0">>),
      Str(<<"5", ",", "0", "0", "0", ".", "5", "0">>) }

\* records: two numeric fields vary, the others are absent
AggRecords ==
    {[c \in Columns |->
        CASE c = "File" -> Str(<<"b", ".", "P", "D", "F">>)
          [] c = "Month" -> Str(<<"M", "a", "y">>)
          [] c = "Basic Salary" -> a
          [] c = "Bonus" -> b
          [] OTHER -> None] : a \in AggTokens, b \in AggTokens}

InitAgg ==
    /\ pc = "get_dataframe"
    /\ data_rows \in UNION {[1..n -> AggRecords] : n \in 0..MaxRows}
    /\ pdf_files = <<>>
    /\ idx = 0
    /\ outcomes = <<>>
    /\ df = <<>>
    /\ df_with_totals = <<>>
    /\ sink_table = <<>>
    /\ raised = "none"
    /\ calls = [aggregate |-> 0, sink |-> 0]
    /\ markdown_text = <<>>
    /\ located = None

SpecAgg == InitAgg /\ [][GetDataframe \/ AddTotals]_vars

-----------------------------------------------------------------------------
(* Properties of a run of main (specification Spec) *)

\* the text source gave a text to read
Readable(o) == o.kind = "return" /\ Truthy(o.value)

\* a record identified by File alone: the fifteen fields absent
AllAbsent(r, file) ==
    r["File"] = Str(file) /\ \A c \in Columns \ {"File"} : r[c] = None

TotalName == Str(<<"T", "O", "T", "A", "L">>)

\* what the text source does, as far as C1 speaks of it: it returns a text or
\* nothing, or fails with an I/O or a permission error
IOOutcome(o) ==
    o.kind = "return" \/ o.exc \in {"OSError", "FileNotFoundError", "PermissionError"}

\* C1: whatever the text source does for a listed document (a text, nothing,
\* a failure with an I/O or permission error), extraction raises nothing and
\* the batch appends exactly one record for it and goes on; a document that
\* gave no text or failed has the all-absent record; after the batch there
\* is one record per listed document.
C1_OneRecordPerDocument ==
    (\A i \in 1..Len(outcomes) : IOOutcome(outcomes[i])) =>
        /\ Len(data_rows) = Len(outcomes)
        /\ \A i \in 1..Len(data_rows) :
              ~Readable(outcomes[i]) => AllAbsent(data_rows[i], pdf_files[i])
        /\ pc \notin {"makedirs", "listdir", "extract"} => Len(data_rows) = Len(pdf_files)

\* C2: in the record of a document with text, Bonus and Fuel Reimbursements
\* hold "0" whenever no value was located for them (a dash or no label); the
\* other fields that were not located stay absent.
C2_BonusFuelDefaultZero ==
    \A i \in 1..Len(data_rows) :
        Readable(outcomes[i]) =>
            \A c \in Columns \ {"File"} :
                ~Truthy(Locate(outcomes[i].value.s, c)) =>
                    data_rows[i][c] = (IF c \in {"Bonus", "Fuel Reimbursements"}
                                       THEN Str(<<"0">>) ELSE None)

\* C4: when the collection is empty as the table is asked for, the run ends
\* with an error raised to the caller of main; no totals are made and the
\* sink is never called.
C4_EmptyCollectionFails ==
    /\ [][(pc = "get_dataframe" /\ data_rows = <<>>)
            => (pc' = "failed" /\ raised' = "ValueError")]_vars
    /\ [][pc = "failed" => pc' = "failed"]_vars
    /\ [](data_rows = <<>> =>
            /\ calls = [aggregate |-> 0, sink |-> 0]
            /\ df_with_totals = <<>>
            /\ sink_table = <<>>)

C4_Witness ==
    /\ pc = "failed"
    /\ raised = "ValueError"
    /\ data_rows = <<>>
    /\ calls.sink = 0

\* C5 as stated: a run none of whose listed documents is readable ends with
\* an error and no table is written; a run whose documents are all readable
\* gets as far as the sink even when fields are missing.
C5_NoReadableDocumentFails ==
    /\ sink_table # <<>> => \E i \in 1..Len(outcomes) : Readable(outcomes[i])
    /\ (pc = "failed" /\ pdf_files # <<>> /\ Len(outcomes) = Len(pdf_files)
            /\ \A i \in 1..Len(outcomes) : Readable(outcomes[i]))
          => calls.sink = 1

\* the text source failed with an error extract_data_from_pdf does not handle
Unhandled(o) ==
    o.kind = "raise" /\ o.exc \notin {"FileNotFoundError", "PermissionError", "ValueError"}

\* C5, amended: a run fails for want of data only when no document is listed.
\* With a document listed and no failure of the text source other than the
\* three handled ones, the run reaches the sink whether or not any document
\* is readable; any other failure of the text source ends the run with that
\* error.  A table that is written has one row per listed document and the
\* totals row; in a row every field that was not located is blank (its
\* amount 0), which is every field when the document was not readable.
C5_FailsOnlyWithoutDocuments ==
    /\ (pc = "failed" /\ calls.sink = 0
            /\ \A i \in 1..Len(outcomes) : ~Unhandled(outcomes[i]))
          => pdf_files = <<>>
    /\ \A i \in 1..Len(outcomes) :
          Unhandled(outcomes[i]) =>
              (pc = "failed" /\ raised = outcomes[i].exc /\ sink_table = <<>>)
    /\ pc = "done" =>
          /\ Len(sink_table) = Len(pdf_files) + 1
          /\ \A i \in 1..Len(pdf_files) :
                /\ sink_table[i]["File"] = Str(pdf_files[i])
                /\ \A c \in Columns \ {"File"} :
                      (~Readable(outcomes[i])
                          \/ ~Truthy(Locate(outcomes[i].value.s, c)))
                        => sink_table[i][c] = (IF c \in NumericKeys THEN Num(0) ELSE None)

C5_Witness ==
    /\ pc = "done"
    /\ Len(pdf_files) = 2
    /\ \A i \in 1..Len(outcomes) : ~Readable(outcomes[i])
    /\ \E i \in 1..Len(outcomes) : outcomes[i].kind = "raise"

\* rows of a table that are a totals record
TotalsRows(table) == {i \in 1..Len(table) : table[i]["File"] = TotalName}

\* C8: the steps of main come in the order process, build, aggregate, sink.
\* The aggregator runs at most once, only when every listed document has
\* been processed, and never on a table that holds a totals record; the
\* table the sink gets holds exactly one totals record, as its last row.
C8_AggregateOnceAtTheEnd ==
    /\ calls.aggregate <= 1 /\ calls.sink <= calls.aggregate
    /\ df # <<>> => (Len(outcomes) = Len(pdf_files) /\ Len(df) = Len(pdf_files))
    /\ calls.aggregate = 1 => df # <<>>
    /\ pc = "add_totals" => TotalsRows(df) = {}
    /\ calls.sink = 1 => TotalsRows(df_with_totals) = {Len(df_with_totals)}
    /\ sink_table # <<>> => (sink_table = df_with_totals /\ calls.sink = 1)

C8_Witness ==
    /\ pc = "done"
    /\ Len(pdf_files) = 2
    /\ pdf_files[1] = <<"T", "O", "T", "A", "L", ".", "p", "d", "f">>
    /\ TotalsRows(sink_table) = {3}

-----------------------------------------------------------------------------
(* Properties of the aggregator (specification SpecAgg) *)

\* what each value of a numeric field is worth, in hundredths
AmountOf(v) ==
    CASE v = None -> 0
      [] v = Str(<<"-">>) -> 0
      [] v = Str(<<"1", ",", "2", "3", "4", ".", "5", "6">>) -> 123456
      [] v = Str(<<"1", "0", ",", "0", "0", "0">>) -> 1000000
      [] v = Str(<<"5", ",", "0", "0", "0", ".", "5", "0">>) -> 500050

RECURSIVE AmountSum(_, _)
AmountSum(rows, c) ==
    IF rows = <<>> THEN 0 ELSE AmountOf(rows[1][c]) + AmountSum(Tail(rows), c)

\* C3: for n >= 1 records the table returned has n+1 rows: the n records in
\* their order, then the totals record, whose File is "TOTAL", whose five
\* text fields are empty strings and whose ten numeric fields are the sums
\* of the columns' amounts.
C3_TotalsRowAppended ==
    calls.aggregate = 1 =>
        LET n == Len(data_rows)
            table == df_with_totals
        IN /\ n >= 1
           /\ Len(table) = n + 1
           /\ \A i \in 1..n :
                 /\ \A c \in {"File"} \cup BasicKeys : table[i][c] = data_rows[i][c]
                 /\ \A c \in NumericKeys : table[i][c] = Num(AmountOf(data_rows[i][c]))
           /\ table[n + 1]["File"] = TotalName
           /\ \A c \in BasicKeys : table[n + 1][c] = Str(<<>>)
           /\ \A c \in NumericKeys : table[n + 1][c] = Num(AmountSum(data_rows, c))

C3_Witness ==
    /\ calls.aggregate = 1
    /\ Len(data_rows) = 2
    /\ data_rows[1]["Basic Salary"] = Str(<<"1", "0", ",", "0", "0", "0">>)
    /\ data_rows[2]["Basic Salary"] = Str(<<"5", ",", "0", "0", "0", ".", "5", "0">>)
    /\ df_with_totals[3]["Basic Salary"] = Num(1500050)

\* C6: the coercion rewrites every numeric field of every record to a
\* number: a token with thousands separators to the number without them, a
\* lone dash to 0, an absent value to 0; afterwards every numeric field of
\* every row, the totals row included, is a number that is not negative.
C6_NumericFieldsCoerced ==
    calls.aggregate = 1 =>
        /\ Len(df) = Len(data_rows)
        /\ \A i \in 1..Len(df) : \A c \in NumericKeys :
              df[i][c] = Num(AmountOf(data_rows[i][c]))
        /\ \A i \in 1..Len(df_with_totals) : \A c \in NumericKeys :
              df_with_totals[i][c].kind = "num" /\ df_with_totals[i][c].n >= 0

C6_Witness ==
    /\ calls.aggregate = 1
    /\ data_rows[1]["Basic Salary"] = Str(<<"1", ",", "2", "3", "4", ".", "5", "6">>)
    /\ data_rows[1]["Bonus"] = Str(<<"-">>)
    /\ df[1]["Basic Salary"] = Num(123456)
    /\ df[1]["Bonus"] = Num(0)
    /\ data_rows[1]["Net Salary"] = None
    /\ df[1]["Net Salary"] = Num(0)

-----------------------------------------------------------------------------
(* Properties of the locators (specification SpecLocate) *)

\* where the label occurs in the text
Occurrences(text, k) == {p \in 1..Len(text) : LiteralAt(text, p, LabelOf(k))}

\* the text cut off just before position q
Before(text, q) == SubSeq(text, 1, q - 1)

\* C7 as stated: the first occurrence of the label alone decides the value;
\* taking the later occurrences (and what follows them) away never changes it.
C7_FirstOccurrenceDecides ==
    LET occ == Occurrences(markdown_text, located.key)
    IN Cardinality(occ) >= 2 =>
          located.value = Locate(Before(markdown_text, Min(occ \ {Min(occ)})), located.key)

\* the start of the leftmost match of the field's pattern (the row pattern
\* of a text field, the inline pattern of a numeric field); 0 if none
MatchStart(text, k) ==
    IF k \in BasicKeys THEN RowSearch(text, LabelOf(k))
    ELSE LET M == {s \in 1..Len(text) : InlineGroupStarts(text, LabelOf(k), s) # {}}
         IN IF M = {} THEN 0 ELSE Min(M)

\* the last position of that match
MatchEnd(text, k) ==
    LET s == MatchStart(text, k)
    IN IF k \in BasicKeys
       THEN SkipUntil(text, Max(RowGroupStarts(text, LabelOf(k), s)), {"|"})
       ELSE LET t == Max(InlineGroupStarts(text, LabelOf(k), s))
            IN t + Len(NumericToken(text, t)) - 1

\* the occurrences of the label that begin after the leftmost match
LaterOccurrences(text, k) ==
    IF MatchStart(text, k) = 0 THEN {}
    ELSE {q \in Occurrences(text, k) : q > MatchEnd(text, k)}

\* C7, amended: the leftmost match of the pattern decides the value.  An
\* occurrence of the label at which the pattern does not match is passed
\* over; an occurrence that begins after the leftmost match, and whatever
\* follows it, can be taken away or added to without changing the value.
C7_LeftmostMatchDecides ==
    /\ [](\A q \in LaterOccurrences(markdown_text, located.key) :
             Locate(Before(markdown_text, q), located.key) = located.value)
    /\ [][LaterOccurrences(markdown_text, located.key) # {}
             => located'.value = located.value]_vars

\* an occurrence was passed over, a later one matched, one more follows
C7_Witness ==
    /\ LaterOccurrences(markdown_text, located.key) # {}
    /\ \E p \in Occurrences(markdown_text, located.key) :
          p + Len(LabelOf(located.key)) <= MatchStart(markdown_text, located.key)
    /\ located.value # None

\* how many digits follow the decimal point of the number written after the
\* label that stands at p (0 if no such number is there)
FractionDigits(text, k, p) ==
    LET t == SkipSet(text, p + Len(LabelOf(k)), SpaceChars)
        e == SkipSet(text, t, DigitChars)
    IN IF e > t /\ e <= Len(text) /\ text[e] = "."
       THEN SkipSet(text, e + 1, DigitChars) - (e + 1)
       ELSE 0

\* C9 as stated: where the label is followed by a number with one or three
\* fractional digits the inline pattern does not match.
C9_OddFractionNoInlineMatch ==
    located.key \in NumericKeys =>
        \A p \in Occurrences(markdown_text, located.key) :
            FractionDigits(markdown_text, located.key, p) \in {1, 3} =>
                InlineGroupStarts(markdown_text, LabelOf(located.key), p) = {}

\* C9, amended: where the label is followed by a number with one or three
\* fractional digits the inline pattern matches there, at the number; when
\* that is the first occurrence of the label the value is the number cut
\* short: its integer part when one digit follows the point, the number up
\* to the second fractional digit when three do.
C9_OddFractionCutShort ==
    located.key \in NumericKeys =>
        \A p \in Occurrences(markdown_text, located.key) :
            LET t == SkipSet(markdown_text, p + Len(LabelOf(located.key)), SpaceChars)
                e == SkipSet(markdown_text, t, DigitChars)
                n == FractionDigits(markdown_text, located.key, p)
            IN n \in {1, 3} =>
                  /\ InlineGroupStarts(markdown_text, LabelOf(located.key), p) = {t}
                  /\ p = Min(Occurrences(markdown_text, located.key)) =>
                        located.value =
                            Str(SubSeq(markdown_text, t, IF n = 1 THEN e - 1 ELSE e + 2))

C9_Witness ==
    /\ located.key \in NumericKeys
    /\ Occurrences(markdown_text, located.key) # {}
    /\ FractionDigits(markdown_text, located.key,
                      Min(Occurrences(markdown_text, located.key))) = 3
    /\ located.value = Str(<<"1", ".", "1", "1">>)

\* C10: extract_numeric_value returns what its inline pattern alone returns:
\* where the inline pattern finds nothing the table pattern finds nothing,
\* and a token the table pattern matches after a label is matched by the
\* inline pattern after the same label.
C10_InlinePatternDecides ==
    located.key \in NumericKeys =>
        LET text == markdown_text
            label == LabelOf(located.key)
        IN /\ located.value = InlineSearch(text, label)
           /\ InlineSearch(text, label) = None => TableSearch(text, label) = None
           /\ \A s \in 1..Len(text) :
                 TableGroupStarts(text, label, s) # {} =>
                     \E s2 \in s..Len(text) :
                         InlineGroupStarts(text, label, s2) = TableGroupStarts(text, label, s)

\* a two-column row: the table pattern matches it, the inline pattern gave
\* the value
C10_Witness ==
    /\ located.key \in NumericKeys
    /\ TableSearch(markdown_text, LabelOf(located.key)) # None
    /\ located.value = TableSearch(markdown_text, LabelOf(located.key))
    /\ \A s \in 1..Len(markdown_text) :
          InlineGroupStarts(markdown_text, LabelOf(located.key), s) # {} =>
              s > 1 /\ markdown_text[s - 1] \in {"|", " "}

=============================================================================
